---- MODULE Spec2Model ----
(***************************************************************************)
(* A model of the Vimeo API client of src/src/vimeo.js: the credential     *)
(* state, the request builder, the generic request executor, and the       *)
(* upload / replace orchestration with the tus transfer handle it returns. *)
(*                                                                         *)
(* JavaScript runs one job at a time: the synchronous part of a call (up   *)
(* to its first await) is one action, the continuation after the awaited   *)
(* promise settles is another.                                             *)
(*                                                                         *)
(* Strings built by concatenation are sequences of their parts:            *)
(* `Bearer ${t}` is <<"Bearer ", t>>.                                      *)
(***************************************************************************)
EXTENDS Integers, Sequences, FiniteSets, Bags, TLC

VARIABLES clientId, clientSecret, accessToken, reqs, calls

vars == <<clientId, clientSecret, accessToken, reqs, calls>>

\* ------------------------------------------------------------------ bounds

\* Upload / replace calls made in one behaviour of Spec.
MaxCalls == 2
\* Upload / replace calls made in one behaviour of SpecTransfer.
MaxTransferCalls == 1
\* Progress events one started transfer reports.
MaxProgress == 1
\* request() calls made in one behaviour of SpecAuth.
MaxRequests == 2
\* Upload / replace calls and request() calls in one behaviour of SpecToken.
MaxTokenCalls == 1
MaxTokenRequests == 1

\* ------------------------------------------------------------- JS values

\* The value `undefined` (also what reading an absent property yields).
UNDEF == "<undefined>"

\* JavaScript truthiness of a string-or-undefined value.
Truthy(s) == s # UNDEF /\ s # ""

\* An object with no own property.
EmptyObj == [k \in {} |-> UNDEF]

\* obj with property k set to v (created when absent).
SetProp(obj, k, v) == (k :> v) @@ obj

Has(obj, k) == k \in DOMAIN obj

\* What calling the value cb as a function does: a TypeError when it is
\* undefined, the invocation otherwise.
Callable(cb) == cb # UNDEF

\* ------------------------------------------------------- credential state

\* this._requestOptions.headers, set once by the constructor.
DefaultHeaders ==
    ("Accept" :> <<"application/vnd.vimeo.*+json;version=3.4">>)
    @@ ("User-Agent" :> <<"Vimeo.js/2.1.1">>)

\* The _accessToken the constructor leaves: the argument when truthy, no
\* property (undefined) otherwise.
ConstructorToken(t) == IF Truthy(t) THEN t ELSE UNDEF

Tokens == {"tokA", "tokB"}

\* ---------------------------------------------------------- request builder

HeaderFalsy(h, k) == ~Has(h, k) \/ h[k] = <<>> \/ h[k] = <<"">>

\* Apply the default headers: a default fills a key the caller left falsy.
ApplyDefaultHeaders(h) ==
    [k \in DOMAIN h \cup DOMAIN DefaultHeaders |->
        IF k \in DOMAIN DefaultHeaders /\ HeaderFalsy(h, k)
        THEN DefaultHeaders[k]
        ELSE h[k]]

\* The mutant: client credentials win over the access token.
AttachAuthorizationBasicFirst(h, id, secret, token) ==
    IF Truthy(id) /\ Truthy(secret)
    THEN SetProp(h, "Authorization", <<"Basic ", id, ":", secret>>)
    ELSE IF Truthy(token)
         THEN SetProp(h, "Authorization", <<"Bearer ", token>>)
         ELSE h

\* The authorization header selection.
AttachAuthorization(h, id, secret, token) ==
    IF Truthy(token)
    THEN SetProp(h, "Authorization", <<"Bearer ", token>>)
    ELSE IF Truthy(id) /\ Truthy(secret)
         THEN SetProp(h, "Authorization", <<"Basic ", id, ":", secret>>)
         ELSE h

MutatingMethods == {"POST", "PATCH", "PUT", "DELETE"}

ApplyContentType(h, method) ==
    IF method \in MutatingMethods /\ HeaderFalsy(h, "Content-Type")
    THEN SetProp(h, "Content-Type", <<"application/json">>)
    ELSE h

\* _buildRequestOptions(options), options an object; the other keys of
\* options (url) are spread into the result unchanged.
BuildRequestOptions(options, id, secret, token) ==
    LET method == IF Has(options, "method") /\ Truthy(options.method)
                  THEN options.method ELSE "GET"
        h0 == IF Has(options, "headers") THEN options.headers ELSE EmptyObj
        h1 == ApplyDefaultHeaders(h0)
        h2 == AttachAuthorization(h1, id, secret, token)
        h3 == ApplyContentType(h2, method)
        data == IF Has(options, "data") THEN options.data ELSE UNDEF
    IN  SetProp(SetProp(SetProp(options, "method", method), "headers", h3),
                "data", data)

\* --------------------------------------------------------- request executor

\* No HTTP call issued.
NoHttp == [none |-> TRUE]

NoResult == [kind |-> "none"]

\* What request(options) does up to its first await. options is a string
\* [type |-> "string", str |-> p] or an object [type |-> "object", obj |-> o].
\* The module is strict code: assigning a property on a string primitive
\* raises a TypeError, which rejects the promise the async function returns.
RequestSync(options, id, secret, token) ==
    IF options.type = "string"
    THEN [options |-> options, pc |-> "rejected", http |-> NoHttp,
          result |-> [kind |-> "raised", v |-> "TypeError"]]
    ELSE IF ~Has(options.obj, "url")
    THEN [options |-> options, pc |-> "resolved", http |-> NoHttp,
          result |-> [kind |-> "value",
                      v |-> "Error: You must provide an API url"]]
    ELSE [options |-> options, pc |-> "awaiting",
          http |-> BuildRequestOptions(options.obj, id, secret, token),
          result |-> NoResult]

Urls == {"videos/1"}

\* The options request() is called with.
RequestInputs ==
    {[type |-> "string", str |-> u] : u \in Urls}
    \cup {[type |-> "object", obj |-> o] : o \in
            {[url |-> u, method |-> "GET"] : u \in Urls}
            \cup {[url |-> u] : u \in Urls}
            \cup {[url |-> u, method |-> "POST", data |-> "body",
                   headers |-> ("Authorization" :> <<"Custom mine">>)]
                  : u \in Urls}
            \cup {EmptyObj}}

ResponseBodies == {"body1"}
TransportErrors == {"Error: Network Error"}

SetAccessToken(t) ==
    /\ accessToken' = t
    /\ UNCHANGED <<clientId, clientSecret, reqs, calls>>

Request(limit) ==
    /\ BagCardinality(reqs) < limit
    /\ \E options \in RequestInputs :
         reqs' = reqs (+) SetToBag({RequestSync(options, clientId,
                                                clientSecret, accessToken)})
    /\ UNCHANGED <<clientId, clientSecret, accessToken, calls>>

\* The awaited Axios promise fulfils: request returns response.data.
AxiosResolve ==
    /\ \E r \in BagToSet(reqs), body \in ResponseBodies :
         /\ r.pc = "awaiting"
         /\ reqs' = (reqs (-) SetToBag({r})) (+)
                    SetToBag({[r EXCEPT !.pc = "resolved",
                                 !.result = [kind |-> "value", v |-> body]]})
    /\ UNCHANGED <<clientId, clientSecret, accessToken, calls>>

\* The awaited Axios promise rejects: the catch block rethrows the error.
AxiosReject ==
    /\ \E r \in BagToSet(reqs), err \in TransportErrors :
         /\ r.pc = "awaiting"
         /\ reqs' = (reqs (-) SetToBag({r})) (+)
                    SetToBag({[r EXCEPT !.pc = "rejected",
                                 !.result = [kind |-> "raised", v |-> err]]})
    /\ UNCHANGED <<clientId, clientSecret, accessToken, calls>>

\* The state after new Vimeo(id, secret, token), any argument possibly
\* omitted.
InitAuth ==
    /\ clientId \in {UNDEF, "id1"}
    /\ clientSecret \in {UNDEF, "secret1"}
    /\ \E t \in {UNDEF, "tokA"} : accessToken = ConstructorToken(t)
    /\ reqs = EmptyBag
    /\ calls = EmptyBag

NextAuth ==
    \/ \E t \in Tokens \cup {UNDEF, ""} : SetAccessToken(t)
    \/ Request(MaxRequests)
    \/ AxiosResolve
    \/ AxiosReject

SpecAuth == InitAuth /\ [][NextAuth]_vars

\* ------------------------------------------------------------ file system

\* The files on disk: path (a sequence of its parts) to size in bytes.
FileSystem == (<<"d", "/", "clip.mov">> :> 9)

\* fs.statSync(path): throws when the path names no file.
StatSync(path) ==
    IF path \in DOMAIN FileSystem
    THEN [ok |-> TRUE, size |-> FileSystem[path]]
    ELSE [ok |-> FALSE, size |-> -1]

RECURSIVE StripTrailingSlashes(_)
StripTrailingSlashes(p) ==
    IF Len(p) > 1 /\ p[Len(p)] = "/"
    THEN StripTrailingSlashes(SubSeq(p, 1, Len(p) - 1))
    ELSE p

RECURSIVE AfterLastSlash(_)
AfterLastSlash(p) ==
    IF p = <<>> \/ p[Len(p)] = "/"
    THEN <<>>
    ELSE Append(AfterLastSlash(SubSeq(p, 1, Len(p) - 1)), p[Len(p)])

\* path.basename(p): the last portion of the path, trailing separators
\* ignored.
Basename(p) == AfterLastSlash(StripTrailingSlashes(p))

\* The files upload / replace are called with: a path that exists, a path
\* that does not, and a file-like object with a declared name and size.
Files ==
    {[type |-> "string", path |-> <<"d", "/", "clip.mov">>],
     [type |-> "string", path |-> <<"gone.mp4">>],
     [type |-> "object", name |-> <<"blob.webm">>, size |-> 5]}

VideoUris == {"/videos/42"}

\* The params objects of the full call form.
ParamsInputs ==
    {EmptyObj,
     [name |-> "My video",
      upload |-> [approach |-> "post", size |-> 1, redirect_url |-> "r"]]}

\* The callbacks an application passes: all three, or no error callback.
CallbackProfiles ==
    {<<"onComplete", "onProgress", "onError">>,
     <<"onComplete", "onProgress", UNDEF>>}

\* The bodies the server answers the intent declaration with.
PostResponses ==
    {[uri |-> "/videos/1", upload |-> [upload_link |-> "https://tus/1"]],
     [uri |-> "/videos/1"]}

\* What new tus.Upload(...) does: returns the session, or throws.
TusOutcomes == {"ok", "throws"}

\* ----------------------------------------------------- upload orchestration

Null == [kind |-> "null"]

\* The mutant: the error callback is not shifted with the others.
NormalizeArgsKeepError(a2, a3, a4, a5) ==
    IF a2.type = "function"
    THEN [params |-> EmptyObj, completeCallback |-> a2.fn,
          progressCallback |-> a3, errorCallback |-> a5]
    ELSE [params |-> a2.obj, completeCallback |-> a3,
          progressCallback |-> a4, errorCallback |-> a5]

\* Argument normalization: a function in the params position shifts the
\* callbacks left by one and params defaults to {}.
NormalizeArgs(a2, a3, a4, a5) ==
    IF a2.type = "function"
    THEN [params |-> EmptyObj, completeCallback |-> a2.fn,
          progressCallback |-> a3, errorCallback |-> a4]
    ELSE [params |-> a2.obj, completeCallback |-> a3,
          progressCallback |-> a4, errorCallback |-> a5]

\* The mutant: a caller-supplied upload object is replaced, not updated.
OverrideUploadReplacing(params, fileSize) ==
    SetProp(params, "upload", [approach |-> "tus", size |-> fileSize])

\* Ignore any specified upload approach and size.
OverrideUpload(params, fileSize) ==
    IF ~Has(params, "upload")
    THEN SetProp(params, "upload", [approach |-> "tus", size |-> fileSize])
    ELSE SetProp(params, "upload",
                 SetProp(SetProp(params.upload, "approach", "tus"),
                         "size", fileSize))

\* replace: params.file_name.
FileName(file) ==
    IF file.type = "string" THEN Basename(file.path) ELSE file.name

\* The mutant: the failure is swallowed, null returned.
CatchErrorSilent(c, msg) ==
    [c EXCEPT !.events = Append(@, "return"), !.ret = Null,
              !.pc = "returned"]

\* A catch block of upload / replace: errorCallback(msg); return null. With
\* no error callback the call itself raises a TypeError, which rejects the
\* promise the async function returned.
CatchError(c, msg) ==
    IF Callable(c.errorCallback)
    THEN [c EXCEPT !.invoked = Append(@, [cb |-> c.errorCallback,
                                          arg |-> msg]),
                   !.events = @ \o <<"onError", "return">>,
                   !.ret = Null,
                   !.pc = "returned"]
    ELSE [c EXCEPT !.events = Append(@, "raise"),
                   !.ret = [kind |-> "raised",
                            v |-> "TypeError: errorCallback is not a function"],
                   !.pc = "rejected"]

UploadUrl == <<"/me/videos?field=uri,name,upload">>

ReplaceUrl(videoUri) == <<videoUri, "/versions?fields=upload">>

\* Size resolved: override params.upload and issue the intent-declaration
\* POST; the call then awaits the response.
DeclareIntent(c, fileSize, params) ==
    LET data == OverrideUpload(params, fileSize)
    IN  [c EXCEPT !.fileSize = fileSize,
                  !.params = data,
                  !.posts = Append(@, [url |-> IF c.op = "upload"
                                               THEN UploadUrl
                                               ELSE ReplaceUrl(c.videoUri),
                                       data |-> data,
                                       headers |-> DefaultHeaders]),
                  !.events = @ \o <<"size", "post">>,
                  !.response = [kind |-> "pending"],
                  !.pc = "awaiting"]

\* upload(file, a2, a3, a4, a5) and replace(file, videoUri, a2, a3, a4, a5)
\* up to the await of the POST.
CallSync(op, file, videoUri, a2, a3, a4, a5) ==
    LET n == NormalizeArgs(a2, a3, a4, a5)
        c0 == [op |-> op, file |-> file, videoUri |-> videoUri,
               a2 |-> a2, a3 |-> a3, a4 |-> a4, a5 |-> a5,
               params |-> n.params,
               completeCallback |-> n.completeCallback,
               progressCallback |-> n.progressCallback,
               errorCallback |-> n.errorCallback,
               fileSize |-> -1, events |-> <<>>, posts |-> <<>>,
               response |-> [kind |-> "none"], pc |-> "running",
               ret |-> [kind |-> "none"], invoked |-> <<>>,
               callerStarted |-> FALSE]
        named(p) == IF op = "replace"
                    THEN SetProp(p, "file_name", FileName(file))
                    ELSE p
    IN  IF file.type = "string"
        THEN LET st == StatSync(file.path)
                 c1 == [c0 EXCEPT !.events = <<"stat">>]
             IN  IF ~st.ok
                 THEN CatchError(c1, <<"Unable to locate file to upload.">>)
                 ELSE DeclareIntent(c1, st.size, named(c1.params))
        ELSE DeclareIntent(c0, file.size, named(c0.params))

\* The mutant: the session is started as soon as it is built.
PerformTusUploadAutoStart(file, fileSize, attempt, completeCallback, progressCallback, errorCallback, tus) ==
    IF tus = "throws"
    THEN [ok |-> FALSE, err |-> "Error: tus"]
    ELSE IF ~Has(attempt, "upload")
    THEN [ok |-> FALSE, err |-> "TypeError: upload_link of undefined"]
    ELSE [ok |-> TRUE,
          handle |-> [kind |-> "handle", file |-> file, endpoint |-> "none",
                      uploadSize |-> fileSize,
                      retryDelays |-> <<0, 1000, 3000, 5000>>,
                      onError |-> errorCallback,
                      onProgress |-> progressCallback,
                      onSuccess |-> [callback |-> completeCallback,
                                     uri |-> IF Has(attempt, "uri")
                                             THEN attempt.uri ELSE UNDEF],
                      url |-> attempt.upload.upload_link,
                      state |-> "started", sent |-> 0]]

\* _performTusUpload: build the tus session (which may throw), point it at
\* the upload link (a TypeError when the attempt carries none) and return it
\* unstarted.
PerformTusUpload(file, fileSize, attempt, completeCallback, progressCallback, errorCallback, tus) ==
    IF tus = "throws"
    THEN [ok |-> FALSE, err |-> "Error: tus"]
    ELSE IF ~Has(attempt, "upload")
    THEN [ok |-> FALSE, err |-> "TypeError: upload_link of undefined"]
    ELSE [ok |-> TRUE,
          handle |-> [kind |-> "handle", file |-> file, endpoint |-> "none",
                      uploadSize |-> fileSize,
                      retryDelays |-> <<0, 1000, 3000, 5000>>,
                      onError |-> errorCallback,
                      onProgress |-> progressCallback,
                      onSuccess |-> [callback |-> completeCallback,
                                     uri |-> IF Has(attempt, "uri")
                                             THEN attempt.uri ELSE UNDEF],
                      url |-> attempt.upload.upload_link,
                      state |-> "idle", sent |-> 0]]

\* The mutant: the server's uri is kept.
ReplaceAttemptKeepUri(data, videoUri) == data

\* replace: data.uri = videoUri.
ReplaceAttempt(data, videoUri) == SetProp(data, "uri", videoUri)

\* The continuation of the try block after the POST fulfils.
OnPostFulfilled(c, data, tus) ==
    LET attempt == IF c.op = "replace"
                   THEN ReplaceAttempt(data, c.videoUri)
                   ELSE data
        r == PerformTusUpload(c.file, c.fileSize, attempt,
                              c.completeCallback, c.progressCallback,
                              c.errorCallback, tus)
        c1 == [c EXCEPT !.response = [kind |-> "fulfilled", data |-> data,
                                      tus |-> tus],
                        !.events = Append(@, "construct")]
    IN  IF r.ok
        THEN [c1 EXCEPT !.events = Append(@, "return"),
                        !.ret = r.handle,
                        !.pc = "returned"]
        ELSE CatchError(c1, <<"Unable to initiate an upload. [", r.err, "]">>)

\* The mutant: a failed POST is retried once.
OnPostRejectedRetry(c, err) ==
    [c EXCEPT !.posts = Append(@, c.posts[1]),
              !.events = Append(@, "post")]

\* The catch block after the POST rejects.
OnPostRejected(c, err) ==
    CatchError([c EXCEPT !.response = [kind |-> "rejected", err |-> err]],
               <<"Unable to initiate an upload. [", err, "]">>)

Replaced(bag, old, new) == (bag (-) SetToBag({old})) (+) SetToBag({new})

\* The positional arguments after the file (and the video URI): the full form
\* (params, onComplete, onProgress, onError) and the shifted form
\* (onComplete, onProgress, onError).
CallForms ==
    {<<[type |-> "object", obj |-> p], cbs[1], cbs[2], cbs[3]>> :
        p \in ParamsInputs, cbs \in CallbackProfiles}
    \cup {<<[type |-> "function", fn |-> cbs[1]], cbs[2], cbs[3], UNDEF>> :
        cbs \in CallbackProfiles}

Upload(limit) ==
    /\ BagCardinality(calls) < limit
    /\ \E file \in Files, a \in CallForms :
         calls' = calls (+) SetToBag({CallSync("upload", file, UNDEF,
                                               a[1], a[2], a[3], a[4])})
    /\ UNCHANGED <<clientId, clientSecret, accessToken, reqs>>

Replace(limit) ==
    /\ BagCardinality(calls) < limit
    /\ \E file \in Files, videoUri \in VideoUris, a \in CallForms :
         calls' = calls (+) SetToBag({CallSync("replace", file, videoUri,
                                               a[1], a[2], a[3], a[4])})
    /\ UNCHANGED <<clientId, clientSecret, accessToken, reqs>>

PostFulfil ==
    /\ \E c \in BagToSet(calls), data \in PostResponses, tus \in TusOutcomes :
         /\ c.pc = "awaiting"
         /\ calls' = Replaced(calls, c, OnPostFulfilled(c, data, tus))
    /\ UNCHANGED <<clientId, clientSecret, accessToken, reqs>>

PostReject ==
    /\ \E c \in BagToSet(calls), err \in TransportErrors :
         /\ c.pc = "awaiting"
         /\ calls' = Replaced(calls, c, OnPostRejected(c, err))
    /\ UNCHANGED <<clientId, clientSecret, accessToken, reqs>>

\* ------------------------------------------------------- the tus transfer

\* The caller starts the handle it was returned.
StartTransfer ==
    /\ \E c \in BagToSet(calls) :
         /\ c.pc = "returned" /\ c.ret.kind = "handle"
         /\ c.ret.state = "idle"
         /\ calls' = Replaced(calls, c,
                [c EXCEPT !.ret.state = "started", !.callerStarted = TRUE])
    /\ UNCHANGED <<clientId, clientSecret, accessToken, reqs>>

\* A chunk is sent: onProgress, when it is a function.
TransferProgress ==
    /\ \E c \in BagToSet(calls) :
         /\ c.pc = "returned" /\ c.ret.kind = "handle"
         /\ c.ret.state = "started" /\ c.ret.sent < MaxProgress
         /\ calls' = Replaced(calls, c,
                [c EXCEPT !.ret.sent = @ + 1,
                          !.invoked = IF Callable(c.ret.onProgress)
                                      THEN Append(@, [cb |-> c.ret.onProgress,
                                                      arg |-> <<"progress">>])
                                      ELSE @])
    /\ UNCHANGED <<clientId, clientSecret, accessToken, reqs>>

\* The transfer completes: onSuccess calls completeCallback(attempt.uri).
TransferSuccess ==
    /\ \E c \in BagToSet(calls) :
         /\ c.pc = "returned" /\ c.ret.kind = "handle"
         /\ c.ret.state = "started"
         /\ calls' = Replaced(calls, c,
                [c EXCEPT !.ret.state = "succeeded",
                          !.invoked =
                             IF Callable(c.ret.onSuccess.callback)
                             THEN Append(@, [cb |-> c.ret.onSuccess.callback,
                                             arg |-> <<c.ret.onSuccess.uri>>])
                             ELSE @])
    /\ UNCHANGED <<clientId, clientSecret, accessToken, reqs>>

\* The transfer fails for good: onError, when it is a function.
TransferError ==
    /\ \E c \in BagToSet(calls) :
         /\ c.pc = "returned" /\ c.ret.kind = "handle"
         /\ c.ret.state = "started"
         /\ calls' = Replaced(calls, c,
                [c EXCEPT !.ret.state = "failed",
                          !.invoked =
                             IF Callable(c.ret.onError)
                             THEN Append(@, [cb |-> c.ret.onError,
                                             arg |-> <<"Error: tus: upload failed">>])
                             ELSE @])
    /\ UNCHANGED <<clientId, clientSecret, accessToken, reqs>>

\* The state after new Vimeo("id1", "secret1").
Init ==
    /\ clientId = "id1"
    /\ clientSecret = "secret1"
    /\ accessToken = ConstructorToken(UNDEF)
    /\ reqs = EmptyBag
    /\ calls = EmptyBag

\* The orchestration alone, several calls in flight: each call from its
\* start to its return.
Next ==
    \/ Upload(MaxCalls)
    \/ Replace(MaxCalls)
    \/ PostFulfil
    \/ PostReject

Spec == Init /\ [][Next]_vars

\* A call through its whole life: the orchestration, then the transfer the
\* caller starts on the handle.
NextTransfer ==
    \/ Upload(MaxTransferCalls)
    \/ Replace(MaxTransferCalls)
    \/ PostFulfil
    \/ PostReject
    \/ StartTransfer
    \/ TransferProgress
    \/ TransferSuccess
    \/ TransferError

SpecTransfer == Init /\ [][NextTransfer]_vars

\* The token setter with the calls that issue HTTP requests.
NextToken ==
    \/ \E t \in Tokens \cup {""} : SetAccessToken(t)
    \/ Request(MaxTokenRequests)
    \/ AxiosResolve
    \/ AxiosReject
    \/ Upload(MaxTokenCalls)
    \/ Replace(MaxTokenCalls)
    \/ PostFulfil
    \/ PostReject

SpecToken == Init /\ [][NextToken]_vars

\* ------------------------------------------------------------- properties

CallSet == BagToSet(calls)

Range(q) == {q[i] : i \in DOMAIN q}

\* The callbacks the caller passed, by the position each call form gives them.
CompleteArg(c) == IF c.a2.type = "function" THEN c.a2.fn ELSE c.a3

ProgressArg(c) == IF c.a2.type = "function" THEN c.a3 ELSE c.a4

ErrorArg(c) == IF c.a2.type = "function" THEN c.a4 ELSE c.a5

\* The params object the caller passed ({} in the shifted form).
ParamsArg(c) == IF c.a2.type = "function" THEN EmptyObj ELSE c.a2.obj

\* The size of the file a call was given, from the disk or the object.
ResolvedSize(file) ==
    IF file.type = "string" THEN FileSystem[file.path] ELSE file.size

MissingFile(c) ==
    c.file.type = "string" /\ c.file.path \notin DOMAIN FileSystem

LocateMessage == <<"Unable to locate file to upload.">>

InitiateMessage(err) == <<"Unable to initiate an upload. [", err, "]">>

\* C1: a call of upload or replace, in the full or the shifted form, with a
\* path whose stat fails and an error callback invokes that callback once
\* with "Unable to locate file to upload.", returns null, issues no POST and
\* builds no transfer session.
C1_MissingFileReported ==
    \A c \in CallSet :
        (MissingFile(c) /\ ErrorArg(c) # UNDEF) =>
            /\ c.invoked = <<[cb |-> ErrorArg(c), arg |-> LocateMessage]>>
            /\ c.ret = Null
            /\ c.pc = "returned"
            /\ c.posts = <<>>
            /\ "post" \notin Range(c.events)
            /\ "construct" \notin Range(c.events)

C1_Witness ==
    \E s, f \in CallSet :
        /\ s.op = "upload" /\ f.op = "replace"
        /\ s.a2.type = "function" /\ f.a2.type = "object"
        /\ MissingFile(s) /\ MissingFile(f)
        /\ s.ret = Null /\ f.ret = Null
        /\ Len(s.invoked) = 1 /\ Len(f.invoked) = 1

\* C2: no call of upload or replace ever raises (its promise never rejects),
\* whichever callbacks were passed; a failed POST is reported to onError with
\* the wrapped message and the call returns null.
C2_NeverRaises ==
    \A c \in CallSet :
        /\ c.pc # "rejected"
        /\ c.response.kind = "rejected" =>
              /\ c.ret = Null
              /\ c.invoked = <<[cb |-> ErrorArg(c),
                                arg |-> InitiateMessage(c.response.err)]>>

C4_UploadOverride ==
    \A c \in CallSet : \A i \in DOMAIN c.posts :
        LET d == c.posts[i].data
            given == IF Has(ParamsArg(c), "upload")
                     THEN ParamsArg(c).upload ELSE EmptyObj
        IN  /\ Has(d, "upload")
            /\ d.upload.approach = "tus"
            /\ d.upload.size = ResolvedSize(c.file)
            /\ DOMAIN d.upload = DOMAIN given \cup {"approach", "size"}
            /\ \A k \in DOMAIN given \ {"approach", "size"} :
                   d.upload[k] = given[k]

C4_Witness ==
    \E c, d \in CallSet :
        /\ c.op = "upload" /\ d.op = "replace"
        /\ Len(c.posts) = 1 /\ Len(d.posts) = 1
        /\ Has(ParamsArg(c), "upload")
        /\ ParamsArg(c).upload.approach = "post"
        /\ c.posts[1].data.upload.redirect_url = "r"
        /\ c.posts[1].data.upload.size = 9
        /\ ~Has(ParamsArg(d), "upload")
        /\ d.posts[1].data.upload.size = 5

\* What the environment and the caller have done to a call so far: the
\* outcome of its POST and of the session construction, and the transfer
\* events of its handle.
Stage(c) ==
    [response |-> c.response, started |-> c.callerStarted,
     transfer |-> IF c.ret.kind = "handle"
                  THEN <<c.ret.state, c.ret.sent>> ELSE <<"none", 0>>]

\* What a call has done: the POSTs it sent, the callbacks it bound, what it
\* returned or raised, and the callbacks invoked.
Observable(c) ==
    [posts |-> c.posts, completeCallback |-> c.completeCallback,
     progressCallback |-> c.progressCallback,
     errorCallback |-> c.errorCallback, ret |-> c.ret, pc |-> c.pc,
     invoked |-> c.invoked, events |-> c.events]

\* s is op(file, c, p, e) and f is op(file, {}, c, p, e).
ShiftedTwin(s, f) ==
    /\ s.op = f.op /\ s.file = f.file /\ s.videoUri = f.videoUri
    /\ s.a2.type = "function" /\ f.a2.type = "object"
    /\ f.a2.obj = EmptyObj
    /\ f.a3 = s.a2.fn /\ f.a4 = s.a3 /\ f.a5 = s.a4

\* C8: a call in the shifted form and the same call in the full form with
\* params {} that have met the same outcomes have sent the same POST, bound
\* the same callbacks, returned the same value and invoked the same
\* callbacks.
C8_ShiftExact ==
    \A s, f \in CallSet :
        (ShiftedTwin(s, f) /\ Stage(s) = Stage(f)) =>
            Observable(s) = Observable(f)

C8_Witness ==
    \E s, f \in CallSet :
        /\ ShiftedTwin(s, f) /\ Stage(s) = Stage(f)
        /\ s.op = "replace"
        /\ s.ret.kind = "handle" /\ Len(s.posts) = 1

\* name is the last portion of path: it holds no separator, sits right after
\* a separator (or at the start) and only separators follow it.
IsBaseNameOf(name, path) ==
    /\ name # <<>>
    /\ "/" \notin Range(name)
    /\ \E k \in 0..Len(path) :
          /\ k + Len(name) <= Len(path)
          /\ SubSeq(path, k + 1, k + Len(name)) = name
          /\ k = 0 \/ path[k] = "/"
          /\ \A j \in (k + Len(name) + 1)..Len(path) : path[j] = "/"

\* C9: replace posts to <videoUri>/versions with file_name the base name of
\* the path (the declared name of a file object); when the started transfer
\* succeeds, onComplete is invoked with videoUri and with nothing else.
C9_ReplaceNameAndUri ==
    \A c \in CallSet :
        c.op = "replace" =>
            /\ \A i \in DOMAIN c.posts :
                  /\ c.posts[i].url = <<c.videoUri, "/versions?fields=upload">>
                  /\ Has(c.posts[i].data, "file_name")
                  /\ IF c.file.type = "string"
                     THEN IsBaseNameOf(c.posts[i].data.file_name, c.file.path)
                     ELSE c.posts[i].data.file_name = c.file.name
            /\ (/\ c.ret.kind = "handle"
                /\ c.ret.state = "succeeded"
                /\ CompleteArg(c) # UNDEF) =>
                  /\ [cb |-> CompleteArg(c), arg |-> <<c.videoUri>>]
                         \in Range(c.invoked)
                  /\ \A i \in DOMAIN c.invoked :
                         c.invoked[i].cb = CompleteArg(c) =>
                             c.invoked[i].arg = <<c.videoUri>>

C9_Witness ==
    \E c \in CallSet :
        /\ c.op = "replace" /\ c.file.type = "string"
        /\ c.ret.kind = "handle" /\ c.ret.state = "succeeded"
        /\ c.posts[1].data.file_name = <<"clip.mov">>
        /\ c.response.data.uri = "/videos/1"
        /\ c.videoUri = "/videos/42"
        /\ [cb |-> "onComplete", arg |-> <<"/videos/42">>] \in Range(c.invoked)

Before(e, a, i) == \E j \in 1..(i - 1) : e[j] = a

\* C10: in every call the size is resolved (after the stat, for a path)
\* before the POST, the session is built only after a POST that fulfilled,
\* the return is the last step, at most one POST is issued, and a call that
\* returns a handle has run exactly stat, size, POST, construction, return;
\* also with several calls in flight.
C10_StepOrder ==
    \A c \in CallSet :
        LET e == c.events
        IN  /\ Cardinality({i \in DOMAIN e : e[i] = "post"}) <= 1
            /\ Len(c.posts) = Cardinality({i \in DOMAIN e : e[i] = "post"})
            /\ \A i \in DOMAIN e :
                  /\ e[i] = "size" =>
                        (c.file.type = "string" => Before(e, "stat", i))
                  /\ e[i] = "post" =>
                        /\ Before(e, "size", i)
                        /\ c.fileSize = ResolvedSize(c.file)
                  /\ e[i] = "construct" =>
                        /\ Before(e, "post", i)
                        /\ c.response.kind = "fulfilled"
                  /\ e[i] \in {"return", "raise"} => i = Len(e)
            /\ c.ret.kind = "handle" =>
                  e = (IF c.file.type = "string" THEN <<"stat">> ELSE <<>>)
                      \o <<"size", "post", "construct", "return">>

C10_Witness ==
    \E c, d \in CallSet :
        /\ c # d
        /\ c.pc = "awaiting" /\ Len(c.posts) = 1
        /\ d.ret.kind = "handle"
        /\ d.events = <<"stat", "size", "post", "construct", "return">>

\* The request() calls and upload / replace calls a step has just made, each
\* with its HTTP call issued.
NewRequests ==
    {r \in BagToSet(reqs') :
        r.pc = "awaiting" /\ CopiesIn(r, reqs') > CopiesIn(r, reqs)}

NewCalls ==
    {c \in BagToSet(calls') :
        c.pc = "awaiting" /\ CopiesIn(c, calls') > CopiesIn(c, calls)}

Bearer(t) == <<"Bearer ", t>>

Basic(id, secret) == <<"Basic ", id, ":", secret>>

HeadersGiven(r) ==
    IF Has(r.options.obj, "headers") THEN r.options.obj.headers ELSE EmptyObj

\* The two rules of the header selection, for the request options a step has
\* just built.
BearerWhenToken(h) ==
    Truthy(accessToken) =>
        Has(h, "Authorization") /\ h["Authorization"] = Bearer(accessToken)

BasicWhenNoToken(h) ==
    (~Truthy(accessToken) /\ Truthy(clientId) /\ Truthy(clientSecret)) =>
        /\ Has(h, "Authorization")
        /\ h["Authorization"] = Basic(clientId, clientSecret)

\* C5 as stated: the bearer header when a token is present, else the basic
\* header when both credentials are present, and in every request exactly
\* one of the two forms is attached.
C5_ExactlyOneForm ==
    [][\A r \in NewRequests :
          LET h == r.http.headers
          IN  /\ BearerWhenToken(h)
              /\ BasicWhenNoToken(h)
              /\ Has(h, "Authorization")
              /\ h["Authorization"] \in
                    {Bearer(accessToken), Basic(clientId, clientSecret)}]_vars

\* C5 amended: the bearer header when a token is present, else the basic
\* header when both credentials are present (either one replacing an
\* Authorization entry of the caller); with no token and a credential
\* missing the builder attaches neither form and the Authorization entry is
\* the caller's own, absent when the caller gave none.
C5_HeaderSelection ==
    [][\A r \in NewRequests :
          LET h == r.http.headers
              own == HeadersGiven(r)
          IN  /\ BearerWhenToken(h)
              /\ BasicWhenNoToken(h)
              /\ (~Truthy(accessToken)
                    /\ ~(Truthy(clientId) /\ Truthy(clientSecret))) =>
                    /\ Has(h, "Authorization") <=> Has(own, "Authorization")
                    /\ Has(own, "Authorization") =>
                          h["Authorization"] = own["Authorization"]]_vars

C5_Witness ==
    \E r, q \in BagToSet(reqs) :
        /\ r.pc = "awaiting" /\ q.pc = "awaiting"
        /\ Has(HeadersGiven(r), "Authorization")
        /\ Has(r.http.headers, "Authorization")
        /\ r.http.headers["Authorization"] = Bearer("tokB")
        /\ ~Has(HeadersGiven(q), "Authorization")
        /\ Has(q.http.headers, "Authorization")
        /\ q.http.headers["Authorization"] = Basic("id1", "secret1")
        /\ accessToken = ""

\* C6: once a token is installed, every HTTP call issued afterwards, by
\* request and by the intent-declaration POST of upload and replace, carries
\* the bearer authorization header for the current token.
C6_TokenOnEveryCall ==
    [][/\ \A r \in NewRequests : BearerWhenToken(r.http.headers)
       /\ \A c \in NewCalls : \A i \in DOMAIN c.posts :
              BearerWhenToken(c.posts[i].headers)]_vars

\* C7: request(p), p a string, does what request({url: p, method: "GET"})
\* does in the same state: the same HTTP call issued, the same outcome.
C7_StringIsGet ==
    [][\A r \in BagToSet(reqs') :
          (r.options.type = "string"
             /\ CopiesIn(r, reqs') > CopiesIn(r, reqs)) =>
            LET twin == RequestSync([type |-> "object",
                                     obj |-> [url |-> r.options.str,
                                              method |-> "GET"]],
                                    clientId, clientSecret, accessToken)
            IN  /\ r.pc = twin.pc
                /\ r.http = twin.http
                /\ r.result = twin.result]_vars

====
